---- MODULE Spec2Model ----
(***************************************************************************)
(* Model of arch-clean: src/main.rs (the orchestration of the cleanup      *)
(* commands) and the parts of src/cmd.rs that decide what a command's      *)
(* check and apply_fix can return.                                         *)
(*                                                                         *)
(* main builds the array of commands, parses the configuration, spawns one *)
(* task per command that runs check and sends (cmd, output) on an          *)
(* unbounded mpsc channel, and then handles the messages one by one in the *)
(* `while let Some(..) = rd.recv().await` loop: printing, then (when       *)
(* configured and available) show_fix, the confirmation and apply_fix.     *)
(* After the loop it joins the task handles.                               *)
(***************************************************************************)
EXTENDS Integers, Sequences, FiniteSets, TLC

\* ---------------------------------------------------------------- bounds
\* The array of main.rs:40 has 8 commands.  A run of the model launches a
\* sub-array of it (same order) with at most MaxCmds commands.
MaxCmds == 2

\* ------------------------------------------------------- the commands
AllCmds ==
    << "LastInstalled", "OrphanPackages", "Paccache", "TrashSize",
       "DiskUsage", "DevUpdates", "NeovimSwapFiles", "RustTarget" >>

Kinds == { AllCmds[n] : n \in 1..Len(AllCmds) }

None == "None"

\* The values `fix_available` can take in the Output a command's check
\* returns with Ok.
FixAvailableValues(k) ==
    CASE k = "LastInstalled"   -> {FALSE}
      [] k = "OrphanPackages"  -> BOOLEAN
      [] k = "Paccache"        -> BOOLEAN
      [] k = "TrashSize"       -> BOOLEAN
      [] k = "DiskUsage"       -> {FALSE}
      [] k = "DevUpdates"      -> BOOLEAN
      [] k = "NeovimSwapFiles" -> BOOLEAN
      [] k = "RustTarget"      -> {TRUE}

\* The commands whose check can return Err (a `?` on a process, a file or a
\* UTF-8 conversion).  NeovimSwapFiles::check has no `?`: a read_dir error
\* counts as 0 files.
CheckCanErr(k) == k # "NeovimSwapFiles"

\* The commands whose check can panic: env::var("HOME").unwrap(), the
\* unwraps on du's stdout pipe, and the panic! on a du line without a tab.
CheckCanPanic(k) ==
    k \in {"TrashSize", "DiskUsage", "NeovimSwapFiles", "RustTarget"}

\* The commands that override show_fix and apply_fix; the others keep the
\* trait's defaults (print nothing, return Ok(())).
OverridesFix(k) ==
    k \in {"OrphanPackages", "TrashSize", "DevUpdates", "NeovimSwapFiles",
           "RustTarget"}

\* What apply_fix can return: the overriding ones run a process or remove
\* directories with `?`; the default is Ok(()).
ApplyFixResults(k) == IF OverridesFix(k) THEN {"Ok", "Err"} ELSE {"Ok"}

\* ------------------------------------------------- the confirmation line
\* Lines read_line can leave in `confirm` (Ok(0) at end of input leaves it
\* empty), as sequences of characters.
Lines ==
    { << "y", "\n" >>, << "y" >>, << " ", "y", " ", "\n" >>,
      << "n", "\n" >>, << "Y", "\n" >>, << "y", "e", "s", "\n" >>,
      << "\n" >>, << >> }

IsWhitespace(c) == c \in {" ", "\n", "\t", "\r"}

RECURSIVE TrimStart(_)
TrimStart(s) ==
    IF s = << >> THEN << >>
    ELSE IF IsWhitespace(Head(s)) THEN TrimStart(Tail(s)) ELSE s

RECURSIVE TrimEnd(_)
TrimEnd(s) ==
    IF s = << >> THEN << >>
    ELSE IF IsWhitespace(s[Len(s)]) THEN TrimEnd(SubSeq(s, 1, Len(s) - 1))
    ELSE s

\* str::trim
Trim(s) == TrimEnd(TrimStart(s))

\* ---------------------------------------------------------------- state
VARIABLES
    cmds,      \* the array of commands main launches
    apply,     \* conf.apply
    pc,        \* where main is
    i,         \* spawn loop: index of the next command to spawn
    wrAlive,   \* main still holds its sender `wr`
    task,      \* per command: state of its spawned task
    chan,      \* the channel: messages sent and not yet received
    cur,       \* loop body: the command of the message being handled
    curOut,    \* loop body: the output of the message being handled
    confirm,   \* loop body: the String the confirmation line is read into
    j,         \* join loop: index of the next handle to await
    exitCode,  \* the process's exit status, -1 while it runs
    ioError,   \* a `?` of the confirmation (flush or read_line) returned Err
    checked,   \* per command: what its check returned (history)
    received,  \* number of messages rd.recv() has returned
    stdout,    \* per command: what was printed for it on standard output
    stderr,    \* per command: what was printed for it on standard error
    calls,     \* per command: number of show_fix and apply_fix invocations
    fixResult, \* per command: what its apply_fix returned
    written,   \* per command: the private state its check left in it
    curSelf,   \* loop body: the private state of the command being handled
    seen,      \* per command: the private states show_fix/apply_fix read
    probe,     \* one check on its own: the command whose check is run
    env,       \* one check on its own: what its processes and files return
    ppc,       \* one check on its own: where the check is
    pself,     \* one check on its own: the private fields of the command
    pout,      \* one check on its own: the Result<Output> it returned
    duLeft,    \* DiskUsage: the lines du has still to write
    pipe       \* DiskUsage: the lines in du's stdout pipe

vars == << cmds, apply, pc, i, wrAlive, task, chan, cur, curOut, confirm, j,
           exitCode, ioError, checked, received, stdout, stderr, calls,
           fixResult, written, curSelf, seen,
           probe, env, ppc, pself, pout, duLeft, pipe >>

\* The variables of main and its tasks, and those of a check run on its own.
mainVars == << cmds, apply, pc, i, wrAlive, task, chan, cur, curOut, confirm,
               j, exitCode, ioError, checked, received, stdout, stderr, calls,
               fixResult, written, curSelf, seen >>

probeVars == << probe, env, ppc, pself, pout, duLeft, pipe >>

\* Output (cmd.rs:19-24) as far as main reads it, tagged with the Result's
\* variant; "None" before check has returned, "Panic" when it unwound.
NoOutput == [tag |-> "None", fix_available |-> FALSE]
OkOutput(f) == [tag |-> "Ok", fix_available |-> f]
ErrOutput == [tag |-> "Err", fix_available |-> FALSE]
PanicOutput == [tag |-> "Panic", fix_available |-> FALSE]

NoCalls == [show_fix |-> 0, apply_fix |-> 0]

\* The private fields of a command, as one list: OrphanPackages.pkgs,
\* NeovimSwapFiles.swap_dir (a list of one string, empty for ""),
\* RustTarget.dirs; the unit structs have none.  Default::default() leaves
\* them empty.
DefaultSelf == << >>

\* The private state a check that returns Ok with fix_available = f leaves:
\* pkgs is non-empty exactly when fix_available (cmd.rs:119, 128); swap_dir
\* is always set (cmd.rs:262); dirs holds the target directories of
\* non-zero size, possibly none, fix_available being always true
\* (cmd.rs:387-398).
SelfAfterCheck(k, f) ==
    CASE k = "OrphanPackages"  -> IF f THEN { << "pkg" >> } ELSE { << >> }
      [] k = "NeovimSwapFiles" -> { << "~/.local/share/nvim/swap" >> }
      [] k = "RustTarget"      -> { << >>, << "target" >> }
      [] OTHER                 -> { << >> }

\* The private state a check that returns Err leaves: OrphanPackages fails
\* before pkgs is assigned; RustTarget can fail in a later iteration of its
\* loop, after dirs was extended.
SelfAfterErr(k) ==
    IF k = "RustTarget" THEN { << >>, << "target" >> } ELSE { << >> }

RECURSIVE SubArray(_, _)
SubArray(s, S) ==
    IF s = << >> THEN << >>
    ELSE (IF Head(s) \in S THEN << Head(s) >> ELSE << >>)
         \o SubArray(Tail(s), S)

Launched == { cmds[n] : n \in 1..Len(cmds) }

\* A Result<Output> with all the fields of Output (cmd.rs:19-24); a String
\* is a sequence of tokens, "\n" being one of them.
NoResult ==
    [tag |-> "None", title |-> "", content |-> << >>, fix_available |-> FALSE]

\* No check is run on its own.
ProbeIdle ==
    /\ probe = None
    /\ env = [io |-> "ok"]
    /\ ppc = "idle"
    /\ pself = DefaultSelf
    /\ pout = NoResult
    /\ duLeft = << >>
    /\ pipe = << >>

\* main before it starts, with an array of at most n commands.
MainInit(n) ==
    /\ \E S \in SUBSET Kinds :
         /\ Cardinality(S) <= n
         /\ cmds = SubArray(AllCmds, S)
    /\ apply = FALSE
    /\ pc = "from_env"
    /\ i = 1
    /\ wrAlive = FALSE
    /\ task = [k \in Kinds |-> "unspawned"]
    /\ chan = << >>
    /\ cur = None
    /\ curOut = NoOutput
    /\ confirm = << >>
    /\ j = 1
    /\ exitCode = -1
    /\ ioError = FALSE
    /\ checked = [k \in Kinds |-> NoOutput]
    /\ received = 0
    /\ stdout = [k \in Kinds |-> {}]
    /\ stderr = [k \in Kinds |-> {}]
    /\ calls = [k \in Kinds |-> NoCalls]
    /\ fixResult = [k \in Kinds |-> None]
    /\ written = [k \in Kinds |-> DefaultSelf]
    /\ curSelf = DefaultSelf
    /\ seen = [k \in Kinds |-> {}]

Init ==
    /\ MainInit(MaxCmds)
    /\ ProbeIdle

\* ------------------------------------------------------------ the tasks
\* Dropping the runtime when main returns: a task that has not finished is
\* cancelled.
Shutdown(t) ==
    [k \in Kinds |-> IF t[k] = "running" THEN "cancelled" ELSE t[k]]

\* The process ends with status `code`.
Exit(code) ==
    /\ pc' = "exit"
    /\ exitCode' = code
    /\ task' = Shutdown(task)

\* cmd.check(&conf) returns Ok(output) and the task sends (cmd, output).
CheckOk(k) ==
    /\ UNCHANGED probeVars
    /\ task[k] = "running"
    /\ \E f \in FixAvailableValues(k) :
         \E self \in SelfAfterCheck(k, f) :
            /\ checked' = [checked EXCEPT ![k] = OkOutput(f)]
            /\ written' = [written EXCEPT ![k] = self]
            /\ chan' = Append(chan,
                   [cmd |-> k, self |-> self, out |-> OkOutput(f)])
    /\ UNCHANGED << curSelf, seen >>
    /\ task' = [task EXCEPT ![k] = "finished"]
    /\ UNCHANGED << cmds, apply, pc, i, wrAlive, cur, curOut, confirm, j,
                    exitCode, ioError, received, stdout, stderr, calls,
                    fixResult >>

\* cmd.check(&conf) returns Err(e) and the task sends (cmd, Err(e)).
CheckErr(k) ==
    /\ UNCHANGED probeVars
    /\ task[k] = "running"
    /\ CheckCanErr(k)
    /\ checked' = [checked EXCEPT ![k] = ErrOutput]
    /\ \E self \in SelfAfterErr(k) :
         chan' = Append(chan, [cmd |-> k, self |-> self, out |-> ErrOutput])
    /\ UNCHANGED << written, curSelf, seen >>
    /\ task' = [task EXCEPT ![k] = "finished"]
    /\ UNCHANGED << cmds, apply, pc, i, wrAlive, cur, curOut, confirm, j,
                    exitCode, ioError, received, stdout, stderr, calls,
                    fixResult >>

\* cmd.check(&conf) panics: the task unwinds, dropping cmd and its sender
\* without sending anything.
CheckPanic(k) ==
    /\ UNCHANGED probeVars
    /\ UNCHANGED << written, curSelf, seen >>
    /\ task[k] = "running"
    /\ CheckCanPanic(k)
    /\ checked' = [checked EXCEPT ![k] = PanicOutput]
    /\ task' = [task EXCEPT ![k] = "panicked"]
    /\ UNCHANGED << cmds, apply, pc, i, wrAlive, chan, cur, curOut, confirm,
                    j, exitCode, ioError, received, stdout, stderr, calls,
                    fixResult >>

\* ----------------------------------------------------------------- main
\* argh::from_env(): the switches are parsed, or the process exits.
FromEnv ==
    /\ UNCHANGED probeVars
    /\ UNCHANGED << written, curSelf, seen >>
    /\ pc = "from_env"
    /\ apply' \in BOOLEAN
    /\ pc' = "spawn"
    /\ wrAlive' = TRUE
    /\ UNCHANGED << cmds, i, task, chan, cur, curOut, confirm, j, exitCode,
                    ioError, checked, received, stdout, stderr, calls,
                    fixResult >>

FromEnvFails ==
    /\ UNCHANGED probeVars
    /\ UNCHANGED << written, curSelf, seen >>
    /\ pc = "from_env"
    /\ Exit(1)
    /\ UNCHANGED << cmds, apply, i, wrAlive, chan, cur, curOut, confirm, j,
                    ioError, checked, received, stdout, stderr, calls,
                    fixResult >>

\* One iteration of `for mut cmd in cmds`: the task is spawned with a clone
\* of the sender.
Spawn ==
    /\ UNCHANGED probeVars
    /\ UNCHANGED << written, curSelf, seen >>
    /\ pc = "spawn"
    /\ i <= Len(cmds)
    /\ task' = [task EXCEPT ![cmds[i]] = "running"]
    /\ i' = i + 1
    /\ UNCHANGED << cmds, apply, pc, wrAlive, chan, cur, curOut, confirm, j,
                    exitCode, ioError, checked, received, stdout, stderr,
                    calls, fixResult >>

\* drop(wr)
DropWr ==
    /\ UNCHANGED probeVars
    /\ UNCHANGED << written, curSelf, seen >>
    /\ pc = "spawn"
    /\ i > Len(cmds)
    /\ wrAlive' = FALSE
    /\ pc' = "recv"
    /\ UNCHANGED << cmds, apply, i, task, chan, cur, curOut, confirm, j,
                    exitCode, ioError, checked, received, stdout, stderr,
                    calls, fixResult >>

\* Mutation of AtRecv: the next message is taken while the confirmation of
\* the previous one is still being read.
AtRecvOrReading == pc \in {"recv", "read_line"}

\* main is at `rd.recv().await`.
AtRecv == pc = "recv"

\* Every sender is dropped: main's and the clone each unfinished task holds.
ChannelClosed ==
    /\ ~wrAlive
    /\ \A k \in Kinds : task[k] # "running"

\* Mutations of Eligible: one of the two operands of the `||` is missing.
EligibleIgnoringFixAvailable(out) == apply

EligibleIgnoringApply(out) == out.fix_available

\* `!conf.apply || !out.fix_available` is false.
Eligible(out) == apply /\ out.fix_available

\* Mutation of Confirmed: the comparison ignores the case.
ConfirmedIgnoringCase(line) == Trim(line) \in {<< "y" >>, << "Y" >>}

\* `confirm.trim() != "y"` is false.
Confirmed(line) == Trim(line) = << "y" >>

\* Mutation of BoundSelf: the loop works on a fresh command of the same
\* type instead of the one that was sent with the output.
BoundSelfFresh(msg) == DefaultSelf

\* `Some((cmd, out))`: the command bound by the loop is the one the task
\* moved into the message, with the private state it has there.
BoundSelf(msg) == msg.self

Printed(log, k, what) == [log EXCEPT ![k] = log[k] \cup what]

\* recv returns Some((cmd, Ok(out))): the block is printed; then `continue`,
\* or on to the fix.
RecvOk ==
    /\ UNCHANGED probeVars
    /\ UNCHANGED << written, seen >>
    /\ AtRecv
    /\ chan # << >>
    /\ Head(chan).out.tag = "Ok"
    /\ LET msg == Head(chan) IN
         /\ chan' = Tail(chan)
         /\ received' = received + 1
         /\ stdout' = Printed(stdout, msg.cmd,
                {"title", "content"} \cup
                (IF msg.out.fix_available THEN {"(fix available)"} ELSE {}))
         /\ IF Eligible(msg.out)
            THEN /\ pc' = "show_fix"
                 /\ cur' = msg.cmd
                 /\ curSelf' = BoundSelf(msg)
                 /\ curOut' = msg.out
            ELSE /\ pc' = "recv"
                 /\ UNCHANGED << cur, curSelf, curOut >>
    /\ UNCHANGED << cmds, apply, i, wrAlive, task, confirm, j, exitCode,
                    ioError, checked, stderr, calls, fixResult >>

\* Mutation of RecvErr: the Err of a check is returned from main (`out?`).
RecvErrReturned ==
    /\ UNCHANGED probeVars
    /\ UNCHANGED << written, curSelf, seen >>
    /\ AtRecv
    /\ chan # << >>
    /\ Head(chan).out.tag = "Err"
    /\ chan' = Tail(chan)
    /\ received' = received + 1
    /\ stderr' = Printed(stderr, Head(chan).cmd, {"Failed to run command"})
    /\ Exit(1)
    /\ UNCHANGED << cmds, apply, i, wrAlive, cur, curOut, confirm, j, ioError,
                    checked, stdout, calls, fixResult >>

\* recv returns Some((cmd, Err(e))): the error line is printed.
RecvErr ==
    /\ UNCHANGED probeVars
    /\ UNCHANGED << written, curSelf, seen >>
    /\ AtRecv
    /\ chan # << >>
    /\ Head(chan).out.tag = "Err"
    /\ LET msg == Head(chan) IN
         /\ chan' = Tail(chan)
         /\ received' = received + 1
         /\ stderr' = Printed(stderr, msg.cmd, {"Failed to run command"})
         /\ pc' = "recv"
    /\ UNCHANGED << cmds, apply, i, wrAlive, task, cur, curOut, confirm, j,
                    exitCode, ioError, checked, stdout, calls, fixResult >>

\* recv returns None: the loop ends.
RecvNone ==
    /\ UNCHANGED probeVars
    /\ UNCHANGED << written, curSelf, seen >>
    /\ AtRecv
    /\ chan = << >>
    /\ ChannelClosed
    /\ pc' = "join"
    /\ UNCHANGED << cmds, apply, i, wrAlive, task, chan, cur, curOut, confirm,
                    j, exitCode, ioError, checked, received, stdout, stderr,
                    calls, fixResult >>

\* cmd.show_fix(&conf), the prompt, `confirm = String::new()` and the flush.
ShowFix ==
    /\ UNCHANGED probeVars
    /\ UNCHANGED << written, curSelf >>
    /\ pc = "show_fix"
    /\ calls' = [calls EXCEPT ![cur].show_fix = @ + 1]
    /\ seen' = [seen EXCEPT ![cur] = @ \cup {curSelf}]
    /\ stdout' = Printed(stdout, cur,
           {"Confirm? [y/N]:"} \cup
           (IF OverridesFix(cur) THEN {"This fix will"} ELSE {}))
    /\ confirm' = << >>
    /\ \/ /\ pc' = "read_line"
          /\ UNCHANGED << task, exitCode, ioError >>
       \/ /\ ioError' = TRUE
          /\ Exit(1)
    /\ UNCHANGED << cmds, apply, i, wrAlive, chan, cur, curOut, j, checked,
                    received, stderr, fixResult >>

\* The end of an iteration of the loop body: its variables go out of scope.
EndIteration ==
    /\ pc' = "recv"
    /\ cur' = None
    /\ curSelf' = DefaultSelf
    /\ curOut' = NoOutput
    /\ confirm' = << >>

\* io::stdin().read_line(&mut confirm)? returns Ok.
ReadLine ==
    /\ UNCHANGED probeVars
    /\ UNCHANGED << written, curSelf, seen >>
    /\ pc = "read_line"
    /\ confirm' \in Lines
    /\ pc' = "if_confirm"
    /\ UNCHANGED << cmds, apply, i, wrAlive, task, chan, cur, curOut, j,
                    exitCode, ioError, checked, received, stdout, stderr,
                    calls, fixResult >>

\* `if confirm.trim() != "y"`: "Skipped" and `continue`; otherwise
\* cmd.apply_fix(&conf) is called.
IfConfirm ==
    /\ UNCHANGED probeVars
    /\ UNCHANGED written
    /\ pc = "if_confirm"
    /\ IF Confirmed(confirm)
       THEN /\ pc' = "apply_fix"
            /\ calls' = [calls EXCEPT ![cur].apply_fix = @ + 1]
            /\ seen' = [seen EXCEPT ![cur] = @ \cup {curSelf}]
            /\ UNCHANGED << stdout, cur, curSelf, curOut, confirm >>
       ELSE /\ stdout' = Printed(stdout, cur, {"Skipped"})
            /\ EndIteration
            /\ UNCHANGED << calls, seen >>
    /\ UNCHANGED << cmds, apply, i, wrAlive, task, chan, j, exitCode, ioError,
                    checked, received, stderr, fixResult >>

\* Mutation of ReadLineFails: the Err is dropped (`.ok()`) and the line,
\* still empty, is compared next.
ReadLineFailsIgnored ==
    /\ UNCHANGED probeVars
    /\ UNCHANGED << written, curSelf, seen >>
    /\ pc = "read_line"
    /\ ioError' = TRUE
    /\ confirm' = << >>
    /\ pc' = "if_confirm"
    /\ UNCHANGED << cmds, apply, i, wrAlive, task, chan, cur, curOut, j,
                    exitCode, checked, received, stdout, stderr, calls,
                    fixResult >>

\* io::stdin().read_line(&mut confirm)? returns Err: main returns it.
ReadLineFails ==
    /\ UNCHANGED probeVars
    /\ UNCHANGED << written, curSelf, seen >>
    /\ pc = "read_line"
    /\ ioError' = TRUE
    /\ Exit(1)
    /\ UNCHANGED << cmds, apply, i, wrAlive, chan, cur, curOut, confirm, j,
                    checked, received, stdout, stderr, calls, fixResult >>

\* Mutation of ApplyFixReturns: the Err of apply_fix is returned from main
\* (`cmd.apply_fix(&conf).await?`).
ApplyFixPropagated ==
    /\ UNCHANGED probeVars
    /\ UNCHANGED << written, seen >>
    /\ pc = "apply_fix"
    /\ \E r \in ApplyFixResults(cur) :
         /\ fixResult' = [fixResult EXCEPT ![cur] = r]
         /\ IF r = "Err"
            THEN /\ stderr' = Printed(stderr, cur, {"Failed to apply fix"})
                 /\ Exit(1)
                 /\ UNCHANGED << stdout, cur, curSelf, curOut, confirm >>
            ELSE /\ stdout' = Printed(stdout, cur, {"Done"})
                 /\ EndIteration
                 /\ UNCHANGED << stderr, task, exitCode >>
    /\ UNCHANGED << cmds, apply, i, wrAlive, chan, j, ioError, checked,
                    received, calls >>

\* cmd.apply_fix(&conf).await returns; unwrap_or_else prints an Err; then
\* "Done" is printed.
ApplyFixReturns ==
    /\ UNCHANGED probeVars
    /\ UNCHANGED << written, seen >>
    /\ pc = "apply_fix"
    /\ \E r \in ApplyFixResults(cur) :
         /\ fixResult' = [fixResult EXCEPT ![cur] = r]
         /\ stderr' = IF r = "Err"
                      THEN Printed(stderr, cur, {"Failed to apply fix"})
                      ELSE stderr
    /\ stdout' = Printed(stdout, cur, {"Done"})
    /\ EndIteration
    /\ UNCHANGED << cmds, apply, i, wrAlive, task, chan, j, exitCode, ioError,
                    checked, received, calls >>

\* handle.await.expect("Failed to join task") on a task that returned.
JoinOk ==
    /\ UNCHANGED probeVars
    /\ UNCHANGED << written, curSelf, seen >>
    /\ pc = "join"
    /\ j <= Len(cmds)
    /\ task[cmds[j]] = "finished"
    /\ j' = j + 1
    /\ UNCHANGED << cmds, apply, pc, i, wrAlive, task, chan, cur, curOut,
                    confirm, exitCode, ioError, checked, received, stdout,
                    stderr, calls, fixResult >>

\* handle.await is Err(JoinError) for a task that panicked: expect panics.
JoinPanics ==
    /\ UNCHANGED probeVars
    /\ UNCHANGED << written, curSelf, seen >>
    /\ pc = "join"
    /\ j <= Len(cmds)
    /\ task[cmds[j]] = "panicked"
    /\ Exit(101)
    /\ UNCHANGED << cmds, apply, i, wrAlive, chan, cur, curOut, confirm, j,
                    ioError, checked, received, stdout, stderr, calls,
                    fixResult >>

\* Ok(())
ReturnOk ==
    /\ UNCHANGED probeVars
    /\ UNCHANGED << written, curSelf, seen >>
    /\ pc = "join"
    /\ j > Len(cmds)
    /\ Exit(0)
    /\ UNCHANGED << cmds, apply, i, wrAlive, chan, cur, curOut, confirm, j,
                    ioError, checked, received, stdout, stderr, calls,
                    fixResult >>

Next ==
    \/ FromEnv
    \/ FromEnvFails
    \/ Spawn
    \/ DropWr
    \/ \E k \in Kinds : CheckOk(k)
    \/ \E k \in Kinds : CheckErr(k)
    \/ \E k \in Kinds : CheckPanic(k)
    \/ RecvOk
    \/ RecvErr
    \/ RecvNone
    \/ ShowFix
    \/ ReadLine
    \/ IfConfirm
    \/ ReadLineFails
    \/ ApplyFixReturns
    \/ JoinOk
    \/ JoinPanics
    \/ ReturnOk

Spec == Init /\ [][Next]_vars

\* ====================================================== a check on its own
\* The checks of cmd.rs, each run once on a fresh command against what its
\* processes and files return (`env`).  A String is a sequence of tokens;
\* " ", "\t" and "\n" are tokens.

MaxLog == 3        \* lines of /var/log/pacman.log
MaxCap == 2        \* largest --max-packages and --max-disk-usage
MaxDu == 3         \* lines du writes for DiskUsage
PipeCap == 2       \* lines the pipe on du's stdout holds
MaxProjects == 2   \* directories with a Cargo.toml

Min(a, b) == IF a <= b THEN a ELSE b

\* Iterator::rev
RevForgotten(s) == s
Rev(s) == [n \in 1..Len(s) |-> s[Len(s) + 1 - n]]

\* Iterator::take
Take(s, n) == SubSeq(s, 1, Min(n, Len(s)))

RECURSIVE SplitLines(_, _)
SplitLines(s, line) ==
    IF s = << >> THEN (IF line = << >> THEN << >> ELSE << line >>)
    ELSE IF Head(s) = "\n" THEN << line >> \o SplitLines(Tail(s), << >>)
    ELSE SplitLines(Tail(s), Append(line, Head(s)))

\* str::lines: the pieces between "\n"; a final "\n" starts no line.
StrLines(s) == SplitLines(s, << >>)

RECURSIVE SplitWords(_, _)
SplitWords(s, word) ==
    IF s = << >> THEN (IF word = << >> THEN << >> ELSE << word >>)
    ELSE IF IsWhitespace(Head(s))
         THEN (IF word = << >> THEN << >> ELSE << word >>)
              \o SplitWords(Tail(s), << >>)
    ELSE SplitWords(Tail(s), Append(word, Head(s)))

\* str::split_whitespace: the maximal runs of tokens that are not whitespace.
SplitWhitespace(s) == SplitWords(s, << >>)

\* [String]::join
RECURSIVE Join(_, _)
Join(ls, sep) ==
    IF ls = << >> THEN << >>
    ELSE IF Len(ls) = 1 THEN ls[1]
    ELSE ls[1] \o sep \o Join(Tail(ls), sep)

\* str::split_once('\t'): the tokens before and after the first tab.
HasTab(line) == \E n \in 1..Len(line) : line[n] = "\t"
TabAt(line) == CHOOSE n \in 1..Len(line) :
                   /\ line[n] = "\t"
                   /\ \A m \in 1..(n - 1) : line[m] # "\t"

\* What check returned: Ok(Output), Err, or a panic.
ProbeOk(title, content, f) ==
    [tag |-> "Ok", title |-> title, content |-> content, fix_available |-> f]
ProbeErr ==
    [tag |-> "Err", title |-> "", content |-> << >>, fix_available |-> FALSE]
ProbePanic ==
    [tag |-> "Panic", title |-> "", content |-> << >>, fix_available |-> FALSE]

Pkgs == {"a", "b"}

\* stdout of `pacman -Qqe` and of `pacman -Qqtd`: one package a line.
PacmanOutputs ==
    { << >>, << "a", "\n" >>, << "b", "\n" >>, << "a", "\n", "b", "\n" >> }

\* Lines of pacman.log: time, [ALPM], action, package, version; and the
\* lines of a transaction, with fewer words.
LogLineShapes ==
    { << "installed", "a" >>, << "installed", "b" >>, << "removed", "a" >>,
      << "upgraded", "b" >>, << "transaction" >> }

LogTime(n) == "t" \o ToString(n)

LogLine(n, shape) ==
    IF Len(shape) = 1
    THEN << LogTime(n), " ", "[ALPM]", " ", "transaction", " ", "started" >>
    ELSE << LogTime(n), " ", "[ALPM]", " ", shape[1], " ", shape[2], " ",
            "(1.0-1)" >>

Logs ==
    { [n \in 1..Len(f) |-> LogLine(n, f[n])] :
        f \in UNION { [1..len -> LogLineShapes] : len \in 0..MaxLog } }

\* ---------------------------------------------------------- LastInstalled
NoEntry == [time |-> << >>, action |-> << >>, pkg |-> << >>, version |-> << >>]

\* The filter_map closure: the 1st, 3rd, 4th and 5th words of the line.
ParseLogEntry(line) ==
    LET params == SplitWhitespace(line) IN
    IF Len(params) >= 5
    THEN [time |-> params[1], action |-> params[3], pkg |-> params[4],
          version |-> params[5]]
    ELSE NoEntry

\* The chain filter_map, filter, filter, filter(unique.insert), map, take
\* over the lines it is given: at most n formatted entries.
RECURSIVE LastInstalledEntries(_, _, _, _)
LastInstalledEntries(lines, installed, unique, n) ==
    IF lines = << >> \/ n = 0 THEN << >>
    ELSE LET e == ParseLogEntry(Head(lines)) IN
         IF /\ e # NoEntry
            /\ e.action = << "installed" >>
            /\ e.pkg \in installed
            /\ e.pkg \notin unique
         THEN << e.time \o << " " >> \o e.pkg \o << " " >> \o e.version >>
              \o LastInstalledEntries(Tail(lines), installed,
                                      unique \cup {e.pkg}, n - 1)
         ELSE LastInstalledEntries(Tail(lines), installed, unique, n)

LastInstalledEnvs ==
    { [io |-> "ok", qqe |-> q, log |-> l, max_packages |-> m] :
        q \in PacmanOutputs, l \in Logs, m \in 0..MaxCap }
    \cup { [io |-> "err", qqe |-> << >>, log |-> << >>, max_packages |-> 0] }

LastInstalledCheck ==
    /\ probe = "LastInstalled"
    /\ ppc = "check"
    /\ ppc' = "done"
    /\ IF env.io = "err"
       THEN pout' = ProbeErr
       ELSE LET stdoutLines == StrLines(env.qqe)
                installed == { stdoutLines[n] : n \in 1..Len(stdoutLines) }
                content ==
                    Join(LastInstalledEntries(Rev(env.log), installed, {},
                                              env.max_packages),
                         << "\n" >>)
            IN pout' = ProbeOk("Last " \o ToString(env.max_packages)
                                  \o " explicitly installed packages",
                               content, FALSE)
    /\ UNCHANGED << probe, env, pself, duLeft, pipe >>
    /\ UNCHANGED mainVars

\* --------------------------------------------------------- OrphanPackages
OrphanPackagesEnvs ==
    { [io |-> "ok", qqtd |-> q] : q \in PacmanOutputs }
    \cup { [io |-> "err", qqtd |-> << >>] }

OrphanPackagesCheck ==
    /\ probe = "OrphanPackages"
    /\ ppc = "check"
    /\ ppc' = "done"
    /\ IF env.io = "err"
       THEN /\ pout' = ProbeErr
            /\ pself' = pself
       ELSE LET pkgs == StrLines(env.qqtd)
                content == IF env.qqtd = << >> THEN << "(none)" >>
                           ELSE env.qqtd
            IN /\ pself' = pkgs
               /\ pout' = ProbeOk("Orphan packages", content, pkgs # << >>)
    /\ UNCHANGED << probe, env, duLeft, pipe >>
    /\ UNCHANGED mainVars

\* --------------------------------------------------------------- Paccache
\* stdout of `paccache -d -v --nocolor`: candidates and a summary line, the
\* single line of "no candidate packages", or nothing when it fails.
PaccacheOutputs ==
    { << "==> no candidate packages found for pruning", "\n" >>,
      << "a-1.0-1.pkg.tar.zst", "\n", "\n",
         "==> finished dry run: 1 candidates", "\n" >>,
      << >> }

PaccacheEnvs ==
    { [io |-> "ok", stdout |-> s] : s \in PaccacheOutputs }
    \cup { [io |-> "err", stdout |-> << >>] }

PaccacheCheck ==
    /\ probe = "Paccache"
    /\ ppc = "check"
    /\ ppc' = "done"
    /\ IF env.io = "err"
       THEN pout' = ProbeErr
       ELSE pout' = ProbeOk("Cache cleaning", env.stdout,
                            Len(StrLines(env.stdout)) # 1)
    /\ UNCHANGED << probe, env, pself, duLeft, pipe >>
    /\ UNCHANGED mainVars

\* -------------------------------------------------------------- TrashSize
\* stdout of `du -hs ~/.local/share/Trash`; nothing when the directory is
\* missing.
TrashOutputs ==
    { << "0", "\t", "Trash", "\n" >>, << "4.0K", "\t", "Trash", "\n" >>,
      << >> }

TrashSizeEnvs ==
    { [home |-> TRUE, io |-> "ok", stdout |-> s] : s \in TrashOutputs }
    \cup { [home |-> TRUE, io |-> "err", stdout |-> << >>],
           [home |-> FALSE, io |-> "ok", stdout |-> << >>] }

TrashSizeCheck ==
    /\ probe = "TrashSize"
    /\ ppc = "check"
    /\ ppc' = "done"
    /\ IF ~env.home THEN pout' = ProbePanic
       ELSE IF env.io = "err" THEN pout' = ProbeErr
       ELSE LET words == SplitWhitespace(env.stdout)
                empty_trash == words # << >> /\ words[1] = << "0" >>
            IN pout' = ProbeOk("Trash size", env.stdout, ~empty_trash)
    /\ UNCHANGED << probe, env, pself, duLeft, pipe >>
    /\ UNCHANGED mainVars

\* ------------------------------------------------------------- DevUpdates
\* stdout of `yay -Sua --confirm --devel` with no stdin.
YayOutputs ==
    { << >>,
      << ":: Searching AUR for updates...", "\n" >>,
      << ":: Searching AUR for updates...", "\n",
         "devel/", "a-git", "\n", "devel/", "b-git", "\n" >> }

DevUpdatesEnvs ==
    { [io |-> "ok", stdout |-> s] : s \in YayOutputs }
    \cup { [io |-> "err", stdout |-> << >>] }

\* str::contains("devel/")
ContainsDevel(line) == \E n \in 1..Len(line) : line[n] = "devel/"

DevUpdatesCheck ==
    /\ probe = "DevUpdates"
    /\ ppc = "check"
    /\ ppc' = "done"
    /\ IF env.io = "err"
       THEN pout' = ProbeErr
       ELSE LET joined == Join(SelectSeq(StrLines(env.stdout), ContainsDevel),
                               << "\n" >>)
                fix_available == Len(StrLines(joined)) > 0
                content == IF joined = << >> THEN << "(none)" >> ELSE joined
            IN pout' = ProbeOk("Developer updates", content, fix_available)
    /\ UNCHANGED << probe, env, pself, duLeft, pipe >>
    /\ UNCHANGED mainVars

\* -------------------------------------------------------- NeovimSwapFiles
\* read_dir of the swap directory: an error, or its entries.
NeovimSwapFilesEnvs ==
    { [home |-> TRUE, read_dir |-> r, files |-> c] :
        r \in {"ok"}, c \in {0, 1, 2} }
    \cup { [home |-> TRUE, read_dir |-> "err", files |-> 0],
           [home |-> FALSE, read_dir |-> "err", files |-> 0] }

NeovimSwapFilesCheck ==
    /\ probe = "NeovimSwapFiles"
    /\ ppc = "check"
    /\ ppc' = "done"
    /\ IF ~env.home
       THEN /\ pout' = ProbePanic
            /\ pself' = pself
       ELSE LET count == IF env.read_dir = "err" THEN 0 ELSE env.files
            IN /\ pself' = << "~/.local/share/nvim/swap" >>
               /\ pout' = ProbeOk("NeoVim swap files",
                                  << ToString(count), " ", "files" >>,
                                  count > 0)
    /\ UNCHANGED << probe, env, duLeft, pipe >>
    /\ UNCHANGED mainVars

\* ------------------------------------------------------------- RustTarget
\* stdout of `find <dir> -name target -type d -exec du -s {} ;`: a line
\* "<kb>\t<path>" for each target directory; a path with a newline in it
\* gives a line without a tab.
TargetOutputs ==
    { << >>,
      << "0", "\t", "p/target", "\n" >>,
      << "2048", "\t", "p/target", "\n" >>,
      << "512", "\t", "p/target", "\n", "1536", "\t", "p/sub/target", "\n" >>,
      << "4", "\t", "p/my", "\n", "dir/target", "\n" >> }

FindResults ==
    { [io |-> "ok", stdout |-> s] : s \in TargetOutputs }
    \cup { [io |-> "err", stdout |-> << >>] }

\* stdout of the first find: one project directory a line.
ProjectDirs(n) == Join([m \in 1..n |-> << "p" \o ToString(m), "\n" >>], << >>)

RustTargetEnvs ==
    { [home |-> TRUE, io |-> "ok", dirs |-> ProjectDirs(Len(f)), finds |-> f] :
        f \in UNION { [1..n -> FindResults] : n \in 0..MaxProjects } }
    \cup { [home |-> TRUE, io |-> "err", dirs |-> << >>, finds |-> << >>],
           [home |-> FALSE, io |-> "ok", dirs |-> << >>, finds |-> << >>] }

KbValues ==
    { << "0", 0 >>, << "4", 4 >>, << "512", 512 >>, << "1536", 1536 >>,
      << "2048", 2048 >> }

\* kb.parse().unwrap_or(0)
ParseKb(word) ==
    IF \E p \in KbValues : word = << p[1] >>
    THEN (CHOOSE p \in KbValues : word = << p[1] >>)[2]
    ELSE 0

\* The map closure on a line with a tab: (kb, path).
DuEntry(line) ==
    [kb   |-> ParseKb(SubSeq(line, 1, TabAt(line) - 1)),
     path |-> SubSeq(line, TabAt(line) + 1, Len(line))]

KbPositive(e) == e.kb > 0

RECURSIVE SumKb(_)
SumKb(output) ==
    IF output = << >> THEN 0 ELSE Head(output).kb + SumKb(Tail(output))

\* The for loop over dirs.lines(), from its n-th line on.
RECURSIVE RustTargetLoop(_, _, _, _, _)
RustTargetLoop(dirLines, finds, n, total_kb, dirs) ==
    IF n > Len(dirLines)
    THEN [tag |-> "Ok", total_kb |-> total_kb, dirs |-> dirs]
    ELSE IF finds[n].io = "err"
    THEN [tag |-> "Err", total_kb |-> total_kb, dirs |-> dirs]
    ELSE LET ls == StrLines(finds[n].stdout) IN
         IF \E m \in 1..Len(ls) : ~HasTab(ls[m])
         THEN [tag |-> "Panic", total_kb |-> total_kb, dirs |-> dirs]
         ELSE LET output ==
                      SelectSeq([m \in 1..Len(ls) |-> DuEntry(ls[m])],
                                KbPositive)
              IN IF output # << >>
                 THEN RustTargetLoop(
                          dirLines, finds, n + 1, total_kb + SumKb(output),
                          dirs \o [m \in 1..Len(output) |-> output[m].path])
                 ELSE RustTargetLoop(dirLines, finds, n + 1, total_kb, dirs)

RustTargetCheck ==
    /\ probe = "RustTarget"
    /\ ppc = "check"
    /\ ppc' = "done"
    /\ IF ~env.home
       THEN /\ pout' = ProbePanic
            /\ pself' = pself
       ELSE IF env.io = "err"
       THEN /\ pout' = ProbeErr
            /\ pself' = pself
       ELSE LET r == RustTargetLoop(StrLines(env.dirs), env.finds, 1, 0, pself)
            IN /\ pself' = r.dirs
               /\ pout' =
                    CASE r.tag = "Panic" -> ProbePanic
                      [] r.tag = "Err"   -> ProbeErr
                      [] OTHER ->
                           ProbeOk("Size of Rust target directories",
                                   << ToString(r.total_kb \div 1024), " ",
                                      "MB" >>,
                                   TRUE)
    /\ UNCHANGED << probe, env, duLeft, pipe >>
    /\ UNCHANGED mainVars

\* -------------------------------------------------------------- DiskUsage
\* What `du -sch <nodes>` writes: a size and a node a line.
DuSizes == {4, 8}

DuOutputs ==
    { [n \in 1..Len(f) |-> [kb |-> f[n], node |-> n]] :
        f \in UNION { [1..len -> DuSizes] : len \in 0..MaxDu } }

DiskUsageEnvs ==
    { [home |-> TRUE, io |-> "ok", du |-> d, max_disk_usage |-> m] :
        d \in DuOutputs, m \in 0..MaxCap }
    \cup { [home |-> TRUE, io |-> "err", du |-> << >>, max_disk_usage |-> 0],
           [home |-> FALSE, io |-> "ok", du |-> << >>, max_disk_usage |-> 0] }

\* A line of du as text.
DuLine(r) == << ToString(r.kb) \o ".0K", "\t", "d" \o ToString(r.node) >>

\* `sort -rh`: larger sizes first; equal sizes by the rest of the line,
\* reversed.
SortsBefore(a, b) == a.kb > b.kb \/ (a.kb = b.kb /\ a.node > b.node)

RECURSIVE SortInsert(_, _)
SortInsert(e, s) ==
    IF s = << >> THEN << e >>
    ELSE IF SortsBefore(e, Head(s)) THEN << e >> \o s
    ELSE << Head(s) >> \o SortInsert(e, Tail(s))

RECURSIVE SortRh(_)
SortRh(s) == IF s = << >> THEN << >> ELSE SortInsert(Head(s), SortRh(Tail(s)))

\* read_dir of the home directory, then du is spawned with a pipe on its
\* stdout.
DiskUsageSpawnDu ==
    /\ probe = "DiskUsage"
    /\ ppc = "check"
    /\ IF ~env.home
       THEN /\ pout' = ProbePanic
            /\ ppc' = "done"
            /\ UNCHANGED << duLeft, pipe >>
       ELSE IF env.io = "err"
       THEN /\ pout' = ProbeErr
            /\ ppc' = "done"
            /\ UNCHANGED << duLeft, pipe >>
       ELSE /\ ppc' = "wait"
            /\ duLeft' = env.du
            /\ pipe' = << >>
            /\ pout' = pout
    /\ UNCHANGED << probe, env, pself >>
    /\ UNCHANGED mainVars

\* du writes its next line: there is room in the pipe, which nobody reads
\* while the task is in cmd.wait().
DuWrite ==
    /\ probe = "DiskUsage"
    /\ ppc = "wait"
    /\ duLeft # << >>
    /\ Len(pipe) < PipeCap
    /\ pipe' = Append(pipe, Head(duLeft))
    /\ duLeft' = Tail(duLeft)
    /\ UNCHANGED << probe, env, ppc, pself, pout >>
    /\ UNCHANGED mainVars

\* du has written everything and exits: cmd.wait() returns.
DiskUsageWait ==
    /\ probe = "DiskUsage"
    /\ ppc = "wait"
    /\ duLeft = << >>
    /\ ppc' = "sort"
    /\ UNCHANGED << probe, env, pself, pout, duLeft, pipe >>
    /\ UNCHANGED mainVars

\* sort reads the pipe to its end; its output is cut to max_disk_usage lines.
DiskUsageSort ==
    /\ probe = "DiskUsage"
    /\ ppc = "sort"
    /\ LET sorted == SortRh(pipe)
           stdoutOfSort ==
               Join([n \in 1..Len(sorted) |-> DuLine(sorted[n]) \o << "\n" >>],
                    << >>)
           out == Join(Take(StrLines(stdoutOfSort), env.max_disk_usage),
                       << "\n" >>)
       IN pout' = ProbeOk("Disk usage distribution in home directory", out,
                          FALSE)
    /\ pipe' = << >>
    /\ ppc' = "done"
    /\ UNCHANGED << probe, env, pself, duLeft >>
    /\ UNCHANGED mainVars

\* ------------------------------------------------------ the specification
Envs(k) ==
    CASE k = "LastInstalled"   -> LastInstalledEnvs
      [] k = "OrphanPackages"  -> OrphanPackagesEnvs
      [] k = "Paccache"        -> PaccacheEnvs
      [] k = "TrashSize"       -> TrashSizeEnvs
      [] k = "DiskUsage"       -> DiskUsageEnvs
      [] k = "DevUpdates"      -> DevUpdatesEnvs
      [] k = "NeovimSwapFiles" -> NeovimSwapFilesEnvs
      [] k = "RustTarget"      -> RustTargetEnvs

\* A fresh command (Default::default()) whose check is about to be called;
\* main launches nothing.
ProbeInit ==
    /\ MainInit(0)
    /\ probe \in Kinds
    /\ env \in Envs(probe)
    /\ ppc = "check"
    /\ pself = DefaultSelf
    /\ pout = NoResult
    /\ duLeft = << >>
    /\ pipe = << >>

ProbeNext ==
    \/ LastInstalledCheck
    \/ OrphanPackagesCheck
    \/ PaccacheCheck
    \/ TrashSizeCheck
    \/ DevUpdatesCheck
    \/ NeovimSwapFilesCheck
    \/ RustTargetCheck
    \/ DiskUsageSpawnDu
    \/ DuWrite
    \/ DiskUsageWait
    \/ DiskUsageSort

ProbeSpec == ProbeInit /\ [][ProbeNext]_vars

TypeOK ==
    /\ cmds \in Seq(Kinds)
    /\ Len(cmds) <= Len(AllCmds)
    /\ apply \in BOOLEAN
    /\ pc \in {"from_env", "spawn", "recv", "show_fix", "read_line",
               "if_confirm", "apply_fix", "join", "exit"}
    /\ exitCode \in {-1, 0, 1, 101}
    /\ received \in 0..Len(cmds)

\* ================================================================ claims
\* Vocabulary of the properties below.

\* The confirmation prompt was issued for k.
Prompted(k) == "Confirm? [y/N]:" \in stdout[k]

\* k's fix step was started (show_fix called) and its marker is not printed.
InFixStep(k) ==
    /\ calls[k].show_fix > 0
    /\ "Done" \notin stdout[k]
    /\ "Skipped" \notin stdout[k]

\* recv has returned None.
LoopEnded == pc = "join" \/ (pc = "exit" /\ exitCode \in {0, 101})

\* The lines that are "y" once the surrounding whitespace is removed.
AffirmativeLines == { << "y", "\n" >>, << "y" >>, << " ", "y", " ", "\n" >> }

\* What the loop does with the message of a command whose check returned:
\* the block (or the error line) is printed, and a fixable command of a run
\* with --apply got its prompt and its marker.
Reported(k) ==
    /\ checked[k].tag = "Ok" =>
         /\ "title" \in stdout[k]
         /\ (apply /\ checked[k].fix_available) =>
              /\ Prompted(k)
              /\ "Done" \in stdout[k] \/ "Skipped" \in stdout[k]
    /\ checked[k].tag = "Err" => "Failed to run command" \in stderr[k]

\* C1: apply_fix is invoked at most once per command, and show_fix, the
\* prompt and apply_fix only after that command's own check has completed
\* with Ok and fix_available = true; a command whose check failed is never
\* taken into a fix step.
C1_FixOnlyAfterOwnFixableCheck ==
    \A k \in Kinds :
        /\ calls[k].apply_fix <= 1
        /\ calls[k].show_fix <= 1
        /\ (calls[k] # NoCalls \/ Prompted(k) \/ cur = k) =>
              /\ checked[k] = OkOutput(TRUE)
              /\ task[k] = "finished"
        /\ checked[k].tag \in {"Err", "Panic"} =>
              /\ calls[k] = NoCalls
              /\ ~Prompted(k)
              /\ cur # k
              /\ fixResult[k] = None

\* C1 witness: one command's fix was applied in a run where another
\* command's check failed and was reported.
C1_Witness ==
    \E a, b \in Kinds :
        /\ calls[a].apply_fix = 1
        /\ fixResult[a] = "Ok"
        /\ checked[b].tag = "Err"
        /\ "Failed to run command" \in stderr[b]

\* C2 (as claimed): when the loop has ended, recv has returned exactly one
\* message per launched task, and every launched task has completed.
C2_ExactlyNMessages ==
    LoopEnded =>
        /\ received = Len(cmds)
        /\ \A k \in Launched : task[k] \in {"finished", "panicked"}

\* C3: a failed check (Err or panic) of one command leaves main in its loop
\* and every other task untouched: once the loop has ended every other
\* launched task has completed, every other command whose check returned
\* was reported, and the fixable ones got their fix step.  The only exit
\* with status 1 after the start is the confirmation's own error.
C3_CheckFailureIsLocal ==
    \A a \in Kinds :
        checked[a].tag \in {"Err", "Panic"} =>
            /\ (pc = "exit" /\ exitCode = 1) => ioError
            /\ LoopEnded =>
                 \A k \in Launched \ {a} :
                     /\ task[k] \in {"finished", "panicked"}
                     /\ Reported(k)

\* C3 witness: a command's fix is being applied after another command's
\* failed check was reported.
C3_Witness ==
    \E a, b \in Kinds :
        /\ a # b
        /\ "Failed to run command" \in stderr[a]
        /\ cur = b
        /\ pc = "apply_fix"

\* C4: without --apply there is no show_fix, no confirmation and no
\* apply_fix, for any command.
C4_NoFixWithoutApply ==
    ~apply =>
        /\ pc \notin {"show_fix", "read_line", "if_confirm", "apply_fix"}
        /\ \A k \in Kinds : calls[k] = NoCalls /\ ~Prompted(k)

\* C4 witness: a run without --apply has ended with two fixable commands
\* printed.
C4_Witness ==
    /\ ~apply
    /\ pc = "exit"
    /\ exitCode = 0
    /\ Cardinality({k \in Kinds : /\ checked[k] = OkOutput(TRUE)
                                  /\ "(fix available)" \in stdout[k]}) >= 2

\* C5: for the command at the confirmation, apply_fix is called exactly
\* when the line read, without its surrounding whitespace, is "y"; on any
\* other line ("n", "Y", "yes", empty, end of input) apply_fix is not called,
\* "Skipped" is printed and main is back at recv.
C5_ApplyIffConfirmedY ==
    [][ (pc = "if_confirm" /\ pc' # "if_confirm") =>
          IF confirm \in AffirmativeLines
          THEN /\ pc' = "apply_fix"
               /\ calls'[cur].apply_fix = calls[cur].apply_fix + 1
               /\ "Skipped" \notin stdout'[cur]
          ELSE /\ pc' = "recv"
               /\ calls' = calls
               /\ "Skipped" \in stdout'[cur]
               /\ fixResult'[cur] = None ]_vars

\* C5 witness: one command was declined and skipped, and the run went on to
\* the next one, whose fix is being applied after a "y".
C5_Witness ==
    \E a, b \in Kinds :
        /\ "Skipped" \in stdout[a]
        /\ calls[a].apply_fix = 0
        /\ cur = b
        /\ pc = "apply_fix"
        /\ confirm \in AffirmativeLines

\* C6 (as claimed): while an apply_fix is executing no check task is
\* executing, and no other command is in apply_fix.
C6_NoFixDuringCheck ==
    pc = "apply_fix" => \A k \in Kinds : task[k] # "running"

\* C7: at most one command at a time is between its show_fix and its
\* Done/Skipped marker, and it is the one main is handling; show_fix is
\* never reached while another command's step is open.
C7_FixStepsSequential ==
    /\ Cardinality({k \in Kinds : InFixStep(k)}) <= 1
    /\ \A k \in Kinds :
         InFixStep(k) =>
            /\ cur = k
            /\ pc \in {"read_line", "if_confirm", "apply_fix", "exit"}

\* C7 witness: a second command is at its confirmation after a first one's
\* fix step was closed with Done.
C7_Witness ==
    \E a, b \in Kinds :
        /\ a # b
        /\ "Done" \in stdout[a]
        /\ InFixStep(b)
        /\ pc = "read_line"

\* C8: a failed apply_fix is reported on standard error and does not end
\* the run: main does not return its error, and once the loop has ended
\* every other command whose check returned was reported and, if fixable,
\* got its fix step.
C8_FixFailureIsLocal ==
    \A a \in Kinds :
        fixResult[a] = "Err" =>
            /\ "Failed to apply fix" \in stderr[a]
            /\ (pc = "exit" /\ exitCode = 1) => ioError
            /\ LoopEnded => \A k \in Launched \ {a} : Reported(k)

\* C8 witness: a command's fix is being applied after another command's
\* apply_fix failed.
C8_Witness ==
    \E a, b \in Kinds :
        /\ a # b
        /\ fixResult[a] = "Err"
        /\ cur = b
        /\ pc = "apply_fix"

\* C9 (as claimed): "Done" is printed for a command only when its apply_fix
\* returned Ok.
C9_DoneOnlyOnSuccess ==
    \A k \in Kinds : "Done" \in stdout[k] => fixResult[k] = "Ok"

\* C10: when the flush or the read of the confirmation fails, main returns
\* the error (exit status 1): apply_fix was not called for the command at
\* the confirmation, no message left in the channel is handled, and every
\* apply_fix called before has returned and keeps its result.
C10_ReadErrorAborts ==
    ioError =>
        /\ pc = "exit"
        /\ exitCode = 1
        /\ cur # None
        /\ calls[cur].apply_fix = 0
        /\ fixResult[cur] = None
        /\ \A n \in 1..Len(chan) : calls[chan[n].cmd] = NoCalls
        /\ \A k \in Kinds :
             calls[k].apply_fix > 0 =>
                 fixResult[k] # None /\ "Done" \in stdout[k]

\* C10 witness: the confirmation of a second command failed after a first
\* one was fixed; the first one's fix stands, the second one's was not
\* called.
C10_Witness ==
    /\ ioError
    /\ cur # None
    /\ calls[cur].apply_fix = 0
    /\ \E a \in Kinds :
         /\ a # cur
         /\ fixResult[a] = "Ok"
         /\ "Done" \in stdout[a]

\* C11 (as claimed): when the process has ended, every command that was
\* launched has its result block on standard output or its "Failed to run
\* command" line on standard error.
C11_NoOutcomeDropped ==
    pc = "exit" =>
        \A k \in Kinds :
            task[k] # "unspawned" =>
                \/ "title" \in stdout[k]
                \/ "Failed to run command" \in stderr[k]

\* C12 (as claimed): a process in which a command was launched ends with
\* status 0, however many checks or fixes failed (the confirmation's own
\* error set aside); a failure status comes from the arguments, before any
\* command runs.
C12_ExitStatusZero ==
    (pc = "exit" /\ ~ioError /\ \E k \in Kinds : task[k] # "unspawned") =>
        exitCode = 0

\* C14 (as claimed): show_fix, the confirmation and apply_fix happen only
\* once every message has been received and every task has been joined.
C14_FixAfterCollection ==
    pc \in {"show_fix", "read_line", "if_confirm", "apply_fix"} =>
        /\ received = Len(cmds)
        /\ j > Len(cmds)

\* C18 (as claimed): "Done" is printed only for a command that overrides
\* apply_fix, never after the trait's default apply_fix.
C18_DoneMeansOwnFix ==
    \A k \in Kinds : "Done" \in stdout[k] => OverridesFix(k)

\* C13: the command show_fix and apply_fix are called on is the one that
\* was sent with the printed output, and the private state they read is the
\* one its check left: it is the same in the message, in the loop and at
\* both calls.
C13_FixReadsCheckedState ==
    /\ \A n \in 1..Len(chan) :
         chan[n].out.tag = "Ok" => chan[n].self = written[chan[n].cmd]
    /\ cur # None => curSelf = written[cur]
    /\ \A k \in Kinds :
         /\ seen[k] \subseteq {written[k]}
         /\ calls[k] # NoCalls => seen[k] = {written[k]}

\* C13 witness: RustTarget's apply_fix is running on the directories its
\* check collected.
C13_Witness ==
    /\ pc = "apply_fix"
    /\ cur = "RustTarget"
    /\ written["RustTarget"] = << "target" >>
    /\ seen["RustTarget"] = { << "target" >> }
    /\ calls["RustTarget"].apply_fix = 1

\* ------------------------------------------- claims on a check on its own
\* The check has returned Ok.
CheckReturnedOk(k) == probe = k /\ ppc = "done" /\ pout.tag = "Ok"

\* C16 (as claimed): the body printed for a successful check, the trimmed
\* content, is never blank.
C16_BodyNeverBlank ==
    \A k \in Kinds : CheckReturnedOk(k) => Trim(pout.content) # << >>

\* The packages `pacman -Qqe` lists.
StillInstalled == { p \in Pkgs : \E n \in 1..Len(env.qqe) : env.qqe[n] = p }

\* Line n of the log records the installation of a package that is still
\* installed.
InstalledAt(n) ==
    LET words == SplitWhitespace(env.log[n]) IN
    /\ Len(words) >= 5
    /\ words[3] = << "installed" >>
    /\ \E p \in StillInstalled : words[4] = << p >>

\* The lines of the log that are the last installation of a package that is
\* still installed.
LastInstallations ==
    { n \in 1..Len(env.log) :
        /\ InstalledAt(n)
        /\ \A m \in (n + 1)..Len(env.log) :
             InstalledAt(m) =>
                 SplitWhitespace(env.log[m])[4] # SplitWhitespace(env.log[n])[4] }

\* The r-th newest of them.
NewestInstallation(r) ==
    CHOOSE n \in LastInstallations :
        Cardinality({ m \in LastInstallations : m > n }) = r - 1

\* "time package version" of line n.
EntryOf(n) ==
    LET words == SplitWhitespace(env.log[n]) IN
    words[1] \o << " " >> \o words[4] \o << " " >> \o words[5]

\* C17: when pacman and the log can be read, LastInstalled returns Ok and
\* its content is, newest first, the last installation of each package that
\* is still installed, cut to the max_packages newest; when the home
\* directory can be read, DiskUsage returns Ok with at most max_disk_usage
\* lines.
C17_CapsTruncate ==
    /\ (probe = "LastInstalled" /\ ppc = "done" /\ env.io = "ok") =>
          /\ pout.tag = "Ok"
          /\ LET entries == StrLines(pout.content) IN
             /\ Len(entries) =
                    Min(env.max_packages, Cardinality(LastInstallations))
             /\ \A r \in 1..Len(entries) :
                    entries[r] = EntryOf(NewestInstallation(r))
    /\ (probe = "DiskUsage" /\ ppc = "done" /\ env.home /\ env.io = "ok") =>
          /\ pout.tag = "Ok"
          /\ Len(StrLines(pout.content)) <= env.max_disk_usage

\* C17 witness: the log has more last installations than max_packages and
\* the content lists one of them.
C17_Witness ==
    /\ CheckReturnedOk("LastInstalled")
    /\ env.max_packages = 1
    /\ Cardinality(LastInstallations) >= 2
    /\ Len(StrLines(pout.content)) = 1

\* C19 (as claimed): while the task waits for du to exit, du is never
\* stopped on a full pipe with output left to write.
C19_WaitNeverBlocked ==
    (probe = "DiskUsage" /\ ppc = "wait") =>
        (duLeft = << >> \/ Len(pipe) < PipeCap)

\* C20 (as claimed): OrphanPackages and RustTarget return fix_available =
\* true only with a non-empty list of packages or directories.
C20_FixableMeansNonEmpty ==
    \A k \in {"OrphanPackages", "RustTarget"} :
        (CheckReturnedOk(k) /\ pout.fix_available) => pself # << >>

====
